---- MODULE Spec2Model ----
(***************************************************************************)
(* Lifecycle coordinator of package service (Application.Run, Halt,        *)
(* Shutdown) as a state machine.  The Run prologue, init, checkState, Halt *)
(* and Shutdown follow src/application.go; the units that the file only    *)
(* declares or launches (work executor, signal listener, the tail of Run,  *)
(* the error latch's record/value) follow spec.md sections 4.2-4.6.        *)
(***************************************************************************)
EXTENDS Integers, Sequences, FiniteSets, TLC

\* ---- bounds -------------------------------------------------------------
NumRunners == 2      \* concurrent callers of Run()
NumCallers == 2      \* concurrent external callers of Halt()/Shutdown()
MaxCalls == 2        \* external Halt() and Shutdown() calls in total

\* ---- program constants --------------------------------------------------
appStateInit == 0
appStateRunning == 1
appStateHalt == 2
appStateShutdown == 3

Nil == "nil"
ErrWrongState == "wrong application state"
ErrMainOmitted == "main function is omitted"
ErrTermTimeout == "termination timeout"

\* errors the collaborators (Resources, MainFunc) may return
InitErrors == {"EInitA", "EInitB"}
WatchErrors == {"EWatch"}
MainErrors == {"EMain"}

Runners == 1..NumRunners
Callers == 1..NumCallers
TRunner(r) == <<"runner", r>>
TCaller(c) == <<"caller", c>>
TWatch == <<"watch", 0>>
TListener == <<"listener", 0>>
Threads == {TRunner(r) : r \in Runners} \cup {TCaller(c) : c \in Callers}
             \cup {TWatch, TListener}

\* ---- ServiceKeeper (package service) ------------------------------------
NumInitCallers == 2   \* goroutines calling ServiceKeeper.Init
MaxInitCalls == 2     \* Init calls made by each of them
NumServices == 3      \* len(ServiceKeeper.Services)

srvStateInit == 0
srvStateReady == 1
srvStateRunnig == 2
srvStateShutdown == 3
srvStateOff == 4

ServiceErrors == {"ESvcA", "ESvcB"}
InitCallers == 1..NumInitCallers
ServiceIdx == 1..NumServices

VARIABLES
  cfgMain,       \* Application.MainFunc != nil
  cfgRes,        \* Application.Resources != nil
  appState,      \* Application.appState
  err,           \* Application.err (the error latch)
  haltCloses,    \* number of close(a.halt) executed
  doneCloses,    \* number of close(a.done) executed
  rpc,           \* position of each Run() call
  ret,           \* value each Run() call returned ("none" while running)
  initErr,       \* Run's local err := a.init()
  won,           \* Run() calls that entered the checkState(Init, Running) branch
  hpc,           \* thread inside Halt() between the CAS and close(a.halt)
  wpc,           \* watch unit
  lpc,           \* signal listener
  mpc,           \* work executor
  calls,         \* invocation counters: collaborators, external API calls
  recLog,        \* non-empty errors offered to the latch, in arrival order
  graceElapsed,  \* TerminationTimeout has passed since the halt request
  lastCall,      \* the last external call, with the state it found
  obs,           \* observations: what the work routine and Watch returned
  state,         \* ServiceKeeper.state
  svcRes,        \* what Services[i].Init returns when it is invoked
  kpc,           \* position of each goroutine's ServiceKeeper.Init call
  kidx,          \* the loop variable i of initAllServices
  kret,          \* value the goroutine's latest Init call returned
  kcalls,        \* number of Init calls each goroutine has made
  kwon,          \* Init calls that passed checkState(srvStateInit, srvStateReady)
  invLog         \* invocations of Services[i].Init, in order, with the call

appVars == <<cfgMain, cfgRes, appState, err, haltCloses, doneCloses, rpc, ret,
          initErr, won, hpc, wpc, lpc, mpc, calls, recLog, graceElapsed,
          lastCall, obs>>
keeperVars == <<state, svcRes, kpc, kidx, kret, kcalls, kwon, invLog>>
vars == <<appVars, keeperVars>>

cfgVars == <<cfgMain, cfgRes>>
runVars == <<rpc, ret, initErr, won>>
unitVars == <<wpc, lpc, mpc>>
extVars == <<lastCall, graceElapsed>>

\* ---- State Guard ---------------------------------------------------------
\* atomic.CompareAndSwapInt32(&a.appState, old, new): the outcome and the
\* value the state holds afterwards.
checkStateBlind(old, new) == [ok |-> TRUE, state |-> new]

checkStateAtMost(old, new) ==
  [ok |-> appState <= old, state |-> IF appState <= old THEN new ELSE appState]

checkState(old, new) ==
  [ok |-> appState = old, state |-> IF appState = old THEN new ELSE appState]

\* ---- Error Latch ---------------------------------------------------------
\* record(err): no-op if err is empty or a value is already held.
LatchRecord(e) == IF e # Nil /\ err = Nil THEN e ELSE err

\* value(): the held error or empty.
LatchValue == err

Logged(src, e) ==
  IF e # Nil THEN Append(recLog, [src |-> src, e |-> e]) ELSE recLog

FirstRecorded == IF recLog = <<>> THEN Nil ELSE recLog[1].e

\* ---- Halt / Shutdown -----------------------------------------------------
\* Halt(): if a.checkState(appStateRunning, appStateHalt) { close(a.halt) }
\* The CAS is this step; the winner's close(a.halt) is HaltClose.
HaltCloseAlways(t) ==
  LET cs == checkState(appStateRunning, appStateHalt) IN
    /\ appState' = cs.state
    /\ hpc' = [hpc EXCEPT ![t] = "close"]

Halt(t) ==
  LET cs == checkState(appStateRunning, appStateHalt) IN
    /\ appState' = cs.state
    /\ hpc' = [hpc EXCEPT ![t] = IF cs.ok THEN "close" ELSE "none"]

\* Shutdown(): a.Halt()
Shutdown(t) == Halt(t)

HaltClose(t) ==
  /\ hpc[t] = "close"
  /\ haltCloses' = haltCloses + 1
  /\ hpc' = [hpc EXCEPT ![t] = "none"]
  /\ UNCHANGED <<keeperVars, cfgVars, appState, err, doneCloses, runVars, unitVars,
                 calls, recLog, extVars, obs>>

\* ---- Run: prologue (src/application.go 58-71) ----------------------------
MainOmittedNever == FALSE

MainOmitted == ~cfgMain

\* the value Run returns when it loses the Init->Running transition
WrongStateResult == ErrWrongState

RunEnter(r) ==
  /\ rpc[r] = "idle"
  /\ IF MainOmitted
       THEN /\ rpc' = [rpc EXCEPT ![r] = "returned"]
            /\ ret' = [ret EXCEPT ![r] = ErrMainOmitted]
            /\ UNCHANGED <<appState, won>>
       ELSE LET cs == checkState(appStateInit, appStateRunning) IN
            /\ appState' = cs.state
            /\ rpc' = [rpc EXCEPT ![r] = IF cs.ok THEN "init" ELSE "returned"]
            /\ ret' = [ret EXCEPT ![r] = IF cs.ok THEN "none"
                                                  ELSE WrongStateResult]
            /\ won' = IF cs.ok THEN won \cup {r} ELSE won
  /\ UNCHANGED <<keeperVars, cfgVars, err, haltCloses, doneCloses, initErr, hpc, unitVars,
                 calls, recLog, extVars, obs>>

InitFailedNever(e) == FALSE

\* if err := a.init(); err != nil
InitFailed(e) == e # Nil

\* a.init(): Resources.Init under the initialization deadline, nil without
\* resources.
RunInit(r) ==
  /\ rpc[r] = "init"
  /\ \E e \in (IF cfgRes THEN {Nil} \cup InitErrors ELSE {Nil}) :
       /\ initErr' = [initErr EXCEPT ![r] = e]
       /\ rpc' = [rpc EXCEPT ![r] = IF InitFailed(e) THEN "failErr"
                                                      ELSE "launchWatch"]
  /\ calls' = IF cfgRes THEN [calls EXCEPT !.init = @ + 1] ELSE calls
  /\ UNCHANGED <<keeperVars, cfgVars, appState, err, haltCloses, doneCloses, ret, won, hpc,
                 unitVars, recLog, extVars, obs>>

\* a.err = err
RunInitFailSetErrDropped(r) ==
  /\ rpc[r] = "failErr"
  /\ recLog' = Logged("init", initErr[r])
  /\ rpc' = [rpc EXCEPT ![r] = "failState"]
  /\ UNCHANGED <<keeperVars, cfgVars, appState, err, haltCloses, doneCloses, ret, initErr,
                 won, hpc, unitVars, calls, extVars, obs>>

RunInitFailSetErr(r) ==
  /\ rpc[r] = "failErr"
  /\ err' = initErr[r]
  /\ recLog' = Logged("init", initErr[r])
  /\ rpc' = [rpc EXCEPT ![r] = "failState"]
  /\ UNCHANGED <<keeperVars, cfgVars, appState, haltCloses, doneCloses, ret, initErr, won,
                 hpc, unitVars, calls, extVars, obs>>

RunInitFailSetStateReset(r) ==
  /\ rpc[r] = "failState"
  /\ appState' = appStateInit
  /\ rpc' = [rpc EXCEPT ![r] = "failRet"]
  /\ UNCHANGED <<keeperVars, cfgVars, err, haltCloses, doneCloses, ret, initErr, won, hpc,
                 unitVars, calls, recLog, extVars, obs>>

\* a.appState = appStateShutdown
RunInitFailSetState(r) ==
  /\ rpc[r] = "failState"
  /\ appState' = appStateShutdown
  /\ rpc' = [rpc EXCEPT ![r] = "failRet"]
  /\ UNCHANGED <<keeperVars, cfgVars, err, haltCloses, doneCloses, ret, initErr, won, hpc,
                 unitVars, calls, recLog, extVars, obs>>

\* return err
RunInitFailReturn(r) ==
  /\ rpc[r] = "failRet"
  /\ ret' = [ret EXCEPT ![r] = initErr[r]]
  /\ rpc' = [rpc EXCEPT ![r] = "returned"]
  /\ UNCHANGED <<keeperVars, cfgVars, appState, err, haltCloses, doneCloses, initErr, won,
                 hpc, unitVars, calls, recLog, extVars, obs>>

\* ---- Run: launching the units ------------------------------------------
\* var servicesRunning = make(chan struct{}); if a.Resources != nil { go ... }
RunLaunchWatch(r) ==
  /\ rpc[r] = "launchWatch"
  /\ rpc' = [rpc EXCEPT ![r] = "launchListener"]
  /\ wpc' = IF cfgRes THEN "watching" ELSE wpc
  /\ calls' = IF cfgRes THEN [calls EXCEPT !.watch = @ + 1] ELSE calls
  /\ UNCHANGED <<keeperVars, cfgVars, appState, err, haltCloses, doneCloses, ret, initErr,
                 won, hpc, lpc, mpc, recLog, extVars, obs>>

\* step 5: launch the Signal Listener
RunLaunchListener(r) ==
  /\ rpc[r] = "launchListener"
  /\ rpc' = [rpc EXCEPT ![r] = "launchWork"]
  /\ lpc' = "waiting"
  /\ UNCHANGED <<keeperVars, cfgVars, appState, err, haltCloses, doneCloses, ret, initErr,
                 won, hpc, wpc, mpc, calls, recLog, extVars, obs>>

\* step 6: launch the Work Executor, which calls MainFunc(ctx, a.halt)
RunLaunchWork(r) ==
  /\ rpc[r] = "launchWork"
  /\ rpc' = [rpc EXCEPT ![r] = "wait"]
  /\ mpc' = "running"
  /\ calls' = [calls EXCEPT !.main = @ + 1]
  /\ UNCHANGED <<keeperVars, cfgVars, appState, err, haltCloses, doneCloses, ret, initErr,
                 won, hpc, wpc, lpc, recLog, extVars, obs>>

\* ---- watch unit ----------------------------------------------------------
\* Resources.Watch returns (nil or an error); a non-empty error is recorded.
WatchReturn ==
  /\ wpc = "watching"
  /\ \E e \in {Nil} \cup WatchErrors :
       /\ err' = LatchRecord(e)
       /\ recLog' = Logged("watch", e)
       /\ obs' = [obs EXCEPT !.watchRes = e, !.watchLate = calls.stop > 0]
  /\ wpc' = "deferShutdown"
  /\ UNCHANGED <<keeperVars, cfgVars, appState, haltCloses, doneCloses, runVars, hpc, lpc,
                 mpc, calls, extVars>>

WatchShutdownSkipped ==
  /\ wpc = "deferShutdown"
  /\ wpc' = "deferClose"
  /\ UNCHANGED <<keeperVars, cfgVars, appState, hpc, err, haltCloses, doneCloses, runVars,
                 lpc, mpc, calls, recLog, extVars, obs>>

\* defer a.shutdown
WatchShutdown ==
  /\ wpc = "deferShutdown"
  /\ Shutdown(TWatch)
  /\ wpc' = "deferClose"
  /\ UNCHANGED <<keeperVars, cfgVars, err, haltCloses, doneCloses, runVars, lpc, mpc,
                 calls, recLog, extVars, obs>>

\* defer close(servicesRunning)
WatchExit ==
  /\ wpc = "deferClose"
  /\ hpc[TWatch] = "none"
  /\ wpc' = "exited"
  /\ UNCHANGED <<keeperVars, cfgVars, appState, err, haltCloses, doneCloses, runVars, hpc,
                 lpc, mpc, calls, recLog, extVars, obs>>

\* ---- signal listener (spec.md 4.4) ---------------------------------------
\* Waiting for the first termination signal, or for the Shutdown Signal.
ListenerWait ==
  /\ lpc = "waiting"
  /\ \E b \in {"signal"} \cup (IF doneCloses > 0 THEN {"done"} ELSE {}) :
       IF b = "signal"
         THEN /\ Halt(TListener)
              /\ lpc' = "race"
         ELSE /\ lpc' = "idleExit"
              /\ UNCHANGED <<appState, hpc>>
  /\ UNCHANGED <<keeperVars, cfgVars, err, haltCloses, doneCloses, runVars, wpc, mpc,
                 calls, recLog, extVars, obs>>

\* The race of the grace-period deadline against the Shutdown Signal.
ListenerRace ==
  /\ lpc = "race"
  /\ hpc[TListener] = "none"
  /\ \E b \in (IF graceElapsed THEN {"timeout"} ELSE {})
               \cup (IF doneCloses > 0 THEN {"done"} ELSE {}) :
       IF b = "timeout"
         THEN /\ err' = LatchRecord(ErrTermTimeout)
              /\ recLog' = Logged("timeout", ErrTermTimeout)
              /\ lpc' = "timedOut"
         ELSE /\ lpc' = "exited"
              /\ UNCHANGED <<err, recLog>>
  /\ UNCHANGED <<keeperVars, cfgVars, appState, haltCloses, doneCloses, runVars, hpc, wpc,
                 mpc, calls, extVars, obs>>

\* ---- work executor (spec.md 4.5) -----------------------------------------
\* MainFunc returns; its result is recorded and completion is reported.
MainReturn ==
  /\ mpc = "running"
  /\ \E e \in {Nil} \cup MainErrors :
       /\ err' = LatchRecord(e)
       /\ recLog' = Logged("main", e)
       /\ obs' = [obs EXCEPT !.workRes = e, !.workLate = graceElapsed]
  /\ mpc' = "done"
  /\ UNCHANGED <<keeperVars, cfgVars, appState, haltCloses, doneCloses, runVars, hpc, wpc,
                 lpc, calls, extVars>>

\* ---- Run: wait and teardown (spec.md 4.6, steps 7-10) --------------------
\* step 7: the first terminal event
Woken == mpc = "done" \/ lpc = "timedOut" \/ doneCloses > 0

\* steps 7-8: wake, then drive the Halt->Shutdown cascade by Shutdown()
RunWake(r) ==
  /\ rpc[r] = "wait"
  /\ Woken
  /\ Shutdown(TRunner(r))
  /\ rpc' = [rpc EXCEPT ![r] = "stop"]
  /\ UNCHANGED <<keeperVars, cfgVars, err, haltCloses, doneCloses, ret, initErr, won,
                 unitVars, calls, recLog, extVars, obs>>

\* step 9: Resources.Stop()
RunStop(r) ==
  /\ rpc[r] = "stop"
  /\ hpc[TRunner(r)] = "none"
  /\ rpc' = [rpc EXCEPT ![r] = IF cfgRes THEN "waitWatch" ELSE "ret"]
  /\ calls' = IF cfgRes THEN [calls EXCEPT !.stop = @ + 1] ELSE calls
  /\ UNCHANGED <<keeperVars, cfgVars, appState, err, haltCloses, doneCloses, ret, initErr,
                 won, hpc, unitVars, recLog, extVars, obs>>

RunWaitWatchNoWait(r) ==
  /\ rpc[r] = "waitWatch"
  /\ rpc' = [rpc EXCEPT ![r] = "release"]
  /\ UNCHANGED <<keeperVars, cfgVars, appState, err, haltCloses, doneCloses, ret, initErr,
                 won, hpc, unitVars, calls, recLog, extVars, obs>>

\* step 9: wait for the watch unit's exit (<-servicesRunning)
RunWaitWatch(r) ==
  /\ rpc[r] = "waitWatch"
  /\ wpc = "exited"
  /\ rpc' = [rpc EXCEPT ![r] = "release"]
  /\ UNCHANGED <<keeperVars, cfgVars, appState, err, haltCloses, doneCloses, ret, initErr,
                 won, hpc, unitVars, calls, recLog, extVars, obs>>

\* step 9: Resources.Release(), which returns nothing
RunRelease(r) ==
  /\ rpc[r] = "release"
  /\ rpc' = [rpc EXCEPT ![r] = "ret"]
  /\ calls' = [calls EXCEPT !.release = @ + 1]
  /\ UNCHANGED <<keeperVars, cfgVars, appState, err, haltCloses, doneCloses, ret, initErr,
                 won, hpc, unitVars, recLog, extVars, obs>>

RunReturnNil(r) ==
  /\ rpc[r] = "ret"
  /\ ret' = [ret EXCEPT ![r] = Nil]
  /\ rpc' = [rpc EXCEPT ![r] = "returned"]
  /\ UNCHANGED <<keeperVars, cfgVars, appState, err, haltCloses, doneCloses, initErr, won,
                 hpc, unitVars, calls, recLog, extVars, obs>>

\* step 10: return the latch's value
RunReturn(r) ==
  /\ rpc[r] = "ret"
  /\ ret' = [ret EXCEPT ![r] = LatchValue]
  /\ rpc' = [rpc EXCEPT ![r] = "returned"]
  /\ UNCHANGED <<keeperVars, cfgVars, appState, err, haltCloses, doneCloses, initErr, won,
                 hpc, unitVars, calls, recLog, extVars, obs>>

\* ---- external callers and time -------------------------------------------
ExtHalt(c) ==
  /\ calls.ext < MaxCalls
  /\ hpc[TCaller(c)] = "none"
  /\ Halt(TCaller(c))
  /\ calls' = [calls EXCEPT !.ext = @ + 1]
  /\ lastCall' = [op |-> "Halt", pre |-> appState]
  /\ obs' = [obs EXCEPT !.extHalt = @ \/ mpc = "running"]
  /\ UNCHANGED <<keeperVars, cfgVars, err, haltCloses, doneCloses, runVars, unitVars,
                 recLog, graceElapsed>>

ExtShutdown(c) ==
  /\ calls.ext < MaxCalls
  /\ hpc[TCaller(c)] = "none"
  /\ Shutdown(TCaller(c))
  /\ calls' = [calls EXCEPT !.ext = @ + 1]
  /\ lastCall' = [op |-> "Shutdown", pre |-> appState]
  /\ UNCHANGED <<keeperVars, cfgVars, err, haltCloses, doneCloses, runVars, unitVars,
                 recLog, graceElapsed, obs>>

HaltRequested == haltCloses > 0 \/ \E t \in Threads : hpc[t] = "close"

\* TerminationTimeout passes after the halt request.
GraceElapse ==
  /\ HaltRequested
  /\ ~graceElapsed
  /\ graceElapsed' = TRUE
  /\ UNCHANGED <<keeperVars, cfgVars, appState, err, haltCloses, doneCloses, runVars, hpc,
                 unitVars, calls, recLog, lastCall, obs>>

\* ---- specification -------------------------------------------------------
AppInit ==
  /\ cfgMain \in BOOLEAN
  /\ cfgRes \in BOOLEAN
  /\ appState = appStateInit
  /\ err = Nil
  /\ haltCloses = 0
  /\ doneCloses = 0
  /\ rpc = [r \in Runners |-> "idle"]
  /\ ret = [r \in Runners |-> "none"]
  /\ initErr = [r \in Runners |-> Nil]
  /\ won = {}
  /\ hpc = [t \in Threads |-> "none"]
  /\ wpc = "off"
  /\ lpc = "off"
  /\ mpc = "off"
  /\ calls = [init |-> 0, watch |-> 0, main |-> 0, stop |-> 0, release |-> 0,
              ext |-> 0]
  /\ recLog = <<>>
  /\ graceElapsed = FALSE
  /\ lastCall = [op |-> "none", pre |-> appStateInit]
  /\ obs = [extHalt |-> FALSE, workRes |-> "none", workLate |-> FALSE,
            watchRes |-> "none", watchLate |-> FALSE]

\* ---- ServiceKeeper -------------------------------------------------------
\* atomic.CompareAndSwapInt32(&s.state, old, new)
keeperCheckStateBlind(old, new) == [ok |-> TRUE, state |-> new]

keeperCheckState(old, new) ==
  [ok |-> state = old, state |-> IF state = old THEN new ELSE state]

\* ServiceKeeper.Init up to the call of initAllServices: the guard, and the
\* return of ErrWrongState when it fails.
ServiceKeeperInit(c) ==
  /\ kpc[c] \in {"idle", "returned"}
  /\ kcalls[c] < MaxInitCalls
  /\ kcalls' = [kcalls EXCEPT ![c] = @ + 1]
  /\ LET cs == keeperCheckState(srvStateInit, srvStateReady)
     IN /\ state' = cs.state
        /\ IF cs.ok
             THEN /\ kpc' = [kpc EXCEPT ![c] = "loop"]
                  /\ kidx' = [kidx EXCEPT ![c] = 1]
                  /\ kret' = [kret EXCEPT ![c] = "none"]
                  /\ kwon' = kwon \cup {<<c, kcalls[c] + 1>>}
             ELSE /\ kpc' = [kpc EXCEPT ![c] = "returned"]
                  /\ kret' = [kret EXCEPT ![c] = ErrWrongState]
                  /\ UNCHANGED <<kidx, kwon>>
  /\ UNCHANGED <<appVars, svcRes, invLog>>

\* One iteration of the loop of initAllServices: Services[i].Init is invoked
\* and a non-nil error is returned at once.
initAllServices(c) ==
  /\ kpc[c] = "loop"
  /\ kidx[c] <= NumServices
  /\ invLog' = Append(invLog, [call |-> <<c, kcalls[c]>>, svc |-> kidx[c]])
  /\ IF svcRes[kidx[c]] # Nil
       THEN /\ kret' = [kret EXCEPT ![c] = svcRes[kidx[c]]]
            /\ kpc' = [kpc EXCEPT ![c] = "returned"]
            /\ UNCHANGED kidx
       ELSE /\ kidx' = [kidx EXCEPT ![c] = @ + 1]
            /\ UNCHANGED <<kret, kpc>>
  /\ UNCHANGED <<appVars, state, svcRes, kcalls, kwon>>

\* The loop is over: initAllServices returns nil, and so does Init.
initAllServicesReturn(c) ==
  /\ kpc[c] = "loop"
  /\ kidx[c] > NumServices
  /\ kret' = [kret EXCEPT ![c] = Nil]
  /\ kpc' = [kpc EXCEPT ![c] = "returned"]
  /\ UNCHANGED <<appVars, state, svcRes, kidx, kcalls, kwon, invLog>>

\* The keeper before any Init call, with services that all succeed.
KeeperIdle ==
  /\ state = srvStateInit
  /\ svcRes = [i \in ServiceIdx |-> Nil]
  /\ kpc = [c \in InitCallers |-> "idle"]
  /\ kidx = [c \in InitCallers |-> 0]
  /\ kret = [c \in InitCallers |-> "none"]
  /\ kcalls = [c \in InitCallers |-> 0]
  /\ kwon = {}
  /\ invLog = <<>>

\* The keeper before any Init call; every service succeeds or fails.
KeeperInit ==
  /\ AppInit
  /\ cfgMain
  /\ cfgRes
  /\ state = srvStateInit
  /\ svcRes \in [ServiceIdx -> {Nil} \cup ServiceErrors]
  /\ kpc = [c \in InitCallers |-> "idle"]
  /\ kidx = [c \in InitCallers |-> 0]
  /\ kret = [c \in InitCallers |-> "none"]
  /\ kcalls = [c \in InitCallers |-> 0]
  /\ kwon = {}
  /\ invLog = <<>>

KeeperNext ==
  \E c \in InitCallers :
    \/ ServiceKeeperInit(c)
    \/ initAllServices(c)
    \/ initAllServicesReturn(c)

KeeperSpec == KeeperInit /\ [][KeeperNext]_vars

Init == AppInit /\ KeeperIdle

Next ==
  \/ \E r \in Runners :
       \/ RunEnter(r)
       \/ RunInit(r)
       \/ RunInitFailSetErr(r)
       \/ RunInitFailSetState(r)
       \/ RunInitFailReturn(r)
       \/ RunLaunchWatch(r)
       \/ RunLaunchListener(r)
       \/ RunLaunchWork(r)
       \/ RunWake(r)
       \/ RunStop(r)
       \/ RunWaitWatch(r)
       \/ RunRelease(r)
       \/ RunReturn(r)
  \/ \E c \in Callers : ExtHalt(c) \/ ExtShutdown(c)
  \/ \E t \in Threads : HaltClose(t)
  \/ WatchReturn
  \/ WatchShutdown
  \/ WatchExit
  \/ ListenerWait
  \/ ListenerRace
  \/ MainReturn
  \/ GraceElapse

Spec == Init /\ [][Next]_vars

\* ---- claims ---------------------------------------------------------------
Returned(r) == rpc[r] = "returned"

\* no caller is between the compare-and-swap of Halt() and its close(a.halt)
NoHaltInProgress == \A t \in Threads : hpc[t] = "none"

\* C1: with a work routine configured, among any number of Run() calls exactly
\* one wins Init->Running and executes the body (Init, Watch and the work
\* routine are invoked at most once); every other call returns ErrWrongState
\* and launches nothing.
C1_SingleRunWinner ==
  cfgMain =>
    /\ Cardinality(won) <= 1
    /\ (\E r \in Runners : rpc[r] # "idle") => Cardinality(won) = 1
    /\ calls.init <= 1 /\ calls.watch <= 1 /\ calls.main <= 1
    /\ \A r \in Runners \ won :
         /\ rpc[r] \in {"idle", "returned"}
         /\ Returned(r) => ret[r] = ErrWrongState

C1_Witness ==
  \E r1, r2 \in Runners :
    /\ r1 \in won /\ Returned(r1)
    /\ r2 \notin won /\ ret[r2] = ErrWrongState
    /\ calls.main = 1

\* C2: without a work routine Run() returns ErrMainOmitted and has no side
\* effect: the state stays Init, no signal is closed, the latch stays empty
\* and no resource operation is invoked.
C2_MainOmittedNoEffect ==
  ~cfgMain =>
    /\ appState = appStateInit
    /\ haltCloses = 0 /\ doneCloses = 0
    /\ err = Nil
    /\ calls.init = 0 /\ calls.watch = 0 /\ calls.stop = 0 /\ calls.release = 0
    /\ calls.main = 0
    /\ \A r \in Runners : Returned(r) => ret[r] = ErrMainOmitted

C2_Witness ==
  /\ ~cfgMain /\ cfgRes
  /\ \A r \in Runners : Returned(r) /\ ret[r] = ErrMainOmitted
  /\ calls.ext > 0

\* C3: when Resources.Init returns an error E, Run() returns exactly E and
\* neither the work routine nor Resources.Watch is ever invoked.
C3_InitErrorReturned ==
  \A r \in Runners :
    initErr[r] # Nil =>
      /\ calls.main = 0 /\ calls.watch = 0
      /\ mpc = "off" /\ wpc = "off" /\ lpc = "off"
      /\ Returned(r) => ret[r] = initErr[r]

C3_Witness ==
  \E r \in Runners :
    /\ Returned(r) /\ initErr[r] = "EInitB" /\ ret[r] = "EInitB"
    /\ calls.init = 1

\* C4: the Halt Signal and the Shutdown Signal are each closed at most once,
\* and a Halt()/Shutdown() call made after the first successful transition
\* leaves the state, both signals and the error latch unchanged.
C4_HaltShutdownIdempotent ==
  [][ /\ haltCloses' <= 1
      /\ doneCloses' <= 1
      /\ ( /\ calls'.ext # calls.ext
           /\ appState \in {appStateHalt, appStateShutdown} )
         => /\ UNCHANGED <<appState, haltCloses, doneCloses, err>>
            /\ hpc' = hpc ]_vars

C4_Witness ==
  /\ calls.ext >= 2
  /\ lastCall = [op |-> "Shutdown", pre |-> appStateHalt]
  /\ NoHaltInProgress
  /\ haltCloses = 1
  /\ appState = appStateHalt

\* C5: Shutdown() called while the state is Running or Halting leaves, when
\* it returns (and no Halt() of another caller is still in progress), the
\* state Shutdown and both signals closed.
C5_ShutdownReachesShutdown ==
  ( /\ lastCall.op = "Shutdown"
    /\ lastCall.pre \in {appStateRunning, appStateHalt}
    /\ NoHaltInProgress )
  => /\ appState = appStateShutdown
     /\ haltCloses = 1
     /\ doneCloses = 1

\* C6: Halt() changes anything only when the state is Running (Running ->
\* Halting, and the caller closes the Halt Signal); in Init, Halting or
\* Shutdown it leaves the state, both signals and the latch unchanged.
C6_HaltOnlyFromRunning ==
  [][ (calls'.ext # calls.ext /\ lastCall'.op = "Halt") =>
        IF appState = appStateRunning
          THEN /\ appState' = appStateHalt
               /\ \E c \in Callers : /\ hpc[TCaller(c)] = "none"
                                     /\ hpc'[TCaller(c)] = "close"
               /\ UNCHANGED <<doneCloses, err>>
          ELSE UNCHANGED <<appState, haltCloses, doneCloses, err, hpc>> ]_vars

C6_Witness ==
  /\ calls.ext >= 2
  /\ lastCall = [op |-> "Halt", pre |-> appStateShutdown]
  /\ err \in InitErrors
  /\ haltCloses = 0

\* C7: the latch holds the first non-empty error offered to it, later offers
\* are discarded, and a Run() that passed Init->Running returns that first
\* error (empty if none was offered).
C7_FirstErrorWins ==
  [][ /\ err' = FirstRecorded'
      /\ \A r \in Runners :
           (r \in won /\ ~Returned(r) /\ Returned(r)')
             => ret'[r] = FirstRecorded ]_vars

C7_Witness ==
  \E r \in won :
    /\ Returned(r)
    /\ Len(recLog) >= 2
    /\ recLog[2].e # recLog[1].e
    /\ ret[r] = recLog[1].e

\* the case of C8 and C9: an external Halt() was called while the work
\* routine was executing, and the work routine has returned
HaltedWork == obs.extHalt /\ obs.workRes # "none"

C9_TimeoutLatchedAfterExternalHalt ==
  \A r \in won :
    ( /\ Returned(r) /\ HaltedWork /\ obs.workLate /\ NoHaltInProgress
      /\ \A i \in 1..Len(recLog) : recLog[i].src \notin {"init", "watch"} )
    => err = ErrTermTimeout /\ ret[r] = ErrTermTimeout

\* C10: whenever Run() returns after having launched the work routine (and no
\* Halt() of another caller is still in progress), the state is Shutdown and
\* both signals are closed, each exactly once.
C10_RunReturnsShutdown ==
  \A r \in won :
    (Returned(r) /\ calls.main > 0 /\ NoHaltInProgress)
      => /\ appState = appStateShutdown
         /\ haltCloses = 1
         /\ doneCloses = 1

\* C11: the work routine is never forcibly abandoned: while it has been
\* launched and has not returned, the Run() that launched it is still at its
\* wait point (also after ErrTermTimeout was recorded) and Resources.Release
\* has not been called.
C11_RunBlocksWhileWorkRuns ==
  mpc = "running" =>
    /\ \A r \in won : rpc[r] = "wait"
    /\ calls.release = 0

\* the watch unit has run its deferred Shutdown() to the end
WatchHandled == wpc = "exited" \/ (wpc = "deferClose" /\ hpc[TWatch] = "none")

WatchEntries == {i \in 1..Len(recLog) : recLog[i].src = "watch"}

\* C12: once Resources.Watch has returned (nil or an error) and the watch
\* unit has run its Shutdown(), the state has left Running and the Halt
\* Signal is closed or being closed by the winner of Running->Halting,
\* whether or not the work routine has returned; a non-empty Watch error was
\* offered to the latch exactly once, a nil return offered nothing.
C12_WatchReturnHalts ==
  /\ WatchHandled =>
       /\ appState = appStateHalt
       /\ haltCloses + Cardinality({t \in Threads : hpc[t] = "close"}) = 1
  /\ obs.watchRes \in {"none", Nil} => WatchEntries = {}
  /\ obs.watchRes \notin {"none", Nil} =>
       /\ Cardinality(WatchEntries) = 1
       /\ \A i \in WatchEntries : recLog[i].e = obs.watchRes
       /\ err # Nil

C12_Witness ==
  /\ wpc = "exited"
  /\ obs.watchRes = Nil
  /\ mpc = "running"
  /\ haltCloses = 1
  /\ lastCall.op = "none"
  /\ lpc = "waiting"
  /\ err = Nil

\* C13: teardown is ordered Stop() -> exit of the watch unit -> Release():
\* Release() is called at most once, never before Stop() and never while the
\* watch unit is still running.
C13_TeardownOrder ==
  /\ calls.release <= 1
  /\ calls.stop <= 1
  /\ \A r \in Runners : rpc[r] = "release" \/ calls.release > 0 =>
       /\ calls.stop = 1
       /\ wpc = "exited"
       /\ calls.init = 1 /\ initErr[r] = Nil

C13_Witness ==
  /\ calls.release = 1
  /\ calls.stop = 1
  /\ wpc = "exited"
  /\ obs.watchRes = "EWatch"
  /\ \E r \in won : Returned(r)

\* C15: in every state in which the lifecycle state is Shutdown, the Halt
\* Signal and the Shutdown Signal are both closed.
C15_ShutdownStateSignalsClosed ==
  appState = appStateShutdown => haltCloses = 1 /\ doneCloses = 1

HaltWinners == haltCloses + Cardinality({t \in Threads : hpc[t] = "close"})

\* C16: the lifecycle state only moves forward (Init, Running, Halting,
\* Shutdown), nothing leaves Shutdown, and Init->Running and
\* Running->Halting are each won by at most one caller.
C16_StateMonotone ==
  [][ /\ appState' >= appState
      /\ appState = appStateShutdown => appState' = appStateShutdown
      /\ appState' \in {appStateInit, appStateRunning, appStateHalt,
                        appStateShutdown}
      /\ Cardinality(won') <= 1
      /\ HaltWinners' <= 1 ]_vars

C16_Witness ==
  /\ appState = appStateShutdown
  /\ haltCloses = 1
  /\ Cardinality(won) = 1
  /\ calls.ext = MaxCalls
  /\ \A r \in Runners : Returned(r)


\* C17: every change of the application state is a compare-and-set from the
\* expected source state: a step that changes the state to Running starts in
\* Init, one that changes it to Halting starts in Running, and one that
\* changes it to Shutdown starts in Halting; in particular the
\* initialization-failure path never overwrites a Halting state that a
\* concurrent Halt has set in the meantime.
C17_GuardedTransitionsOnly ==
  [][ appState' # appState =>
        \/ appState = appStateInit /\ appState' = appStateRunning
        \/ appState = appStateRunning /\ appState' = appStateHalt
        \/ appState = appStateHalt /\ appState' = appStateShutdown ]_vars

\* C19: when the work routine has returned, Watch has returned after Stop
\* and Run has returned, no unit is left blocked on a signal that will never
\* be closed: a signal listener that still waits on the Shutdown Signal finds
\* it closed, so that it can exit.  (Safety form of the termination claim:
\* the listener leaves its wait only on an OS signal or on the closed
\* Shutdown Signal, and after Run has returned nothing closes it.)
C19_NoUnitBlockedForever ==
  \A r \in won :
    ( /\ Returned(r)
      /\ mpc = "done"
      /\ obs.watchLate
      /\ wpc = "exited"
      /\ NoHaltInProgress
      /\ lpc \in {"waiting", "race"} ) => doneCloses > 0

\* ---- ServiceKeeper claims --------------------------------------------------
KReturned(c) == kpc[c] = "returned"
KCall(c) == <<c, kcalls[c]>>
FailingServices == {i \in ServiceIdx : svcRes[i] # Nil}
FirstFailing == CHOOSE i \in FailingServices : \A j \in FailingServices : i <= j

\* C20: of all Init calls of a ServiceKeeper, concurrent or repeated, exactly
\* one passes the Init -> Ready compare-and-set; every other call returns
\* ErrWrongState, and every service invocation belongs to the winning call.
\* The winning call invokes the services' Init in list order, each at most
\* once, every invoked service before the last one having succeeded; it
\* returns the first error, having invoked no later service, or nil after the
\* whole list.  A failed initialization is not retried: a later call finds
\* the state Ready and is one of the calls that return ErrWrongState.
C20_SingleInitSequence ==
  /\ Cardinality(kwon) <= 1
  /\ (\E c \in InitCallers : kcalls[c] > 0) => Cardinality(kwon) = 1
  /\ Len(invLog) <= NumServices
  /\ \A j \in 1..Len(invLog) :
       /\ invLog[j].svc = j
       /\ invLog[j].call \in kwon
       /\ j < Len(invLog) => svcRes[j] = Nil
  /\ \A c \in InitCallers : KReturned(c) =>
       IF KCall(c) \in kwon
         THEN IF FailingServices = {}
                THEN kret[c] = Nil /\ Len(invLog) = NumServices
                ELSE kret[c] = svcRes[FirstFailing] /\ Len(invLog) = FirstFailing
         ELSE kret[c] = ErrWrongState

\* The winning call failed at the second service and returned its error with
\* the third never invoked; the other goroutine's concurrent call and its
\* repeated call after the failure both returned ErrWrongState.
C20_Witness ==
  /\ svcRes[1] = Nil
  /\ svcRes[2] = "ESvcA"
  /\ svcRes[3] = "ESvcB"
  /\ kwon = {<<1, 1>>}
  /\ KReturned(1) /\ kcalls[1] = 1 /\ kret[1] = "ESvcA"
  /\ KReturned(2) /\ kcalls[2] = MaxInitCalls /\ kret[2] = ErrWrongState
  /\ Len(invLog) = 2


============================================================================
